---- MODULE Spec2Model ----
(***************************************************************************)
(* A model of folium/utilities.py: the hex/RGB codec, the linear gradient, *)
(* the colorbrewer catalog, the legend tick scaler and the rounding helper *)
(* of split_six.  The functions are pure; the state of the model is the    *)
(* call in progress: the functions applied so far, the argument of the     *)
(* first one and the outcome (a value or an exception) of the last one.    *)
(*                                                                         *)
(* Python floats are IEEE-754 binary64 numbers.  They are modelled exactly:*)
(* a float is a sign, a 53-bit mantissa and an exponent, the mantissa kept *)
(* as a little-endian sequence of 13-bit limbs, and every arithmetic       *)
(* operation rounds to nearest, ties to even, as the hardware does.        *)
(***************************************************************************)
EXTENDS Integers, Sequences, FiniteSets, TLC

VARIABLES fn, arg, ret

vars == <<fn, arg, ret>>

(***************************************************************************)
(* Outcomes of a call: a returned value or a raised exception.             *)
(***************************************************************************)
Ok(v) == [exc |-> "none", none |-> FALSE, val |-> v]

Raise(e) == [exc |-> e, none |-> FALSE, val |-> <<>>]

\* the value None
ReturnNone == [exc |-> "none", none |-> TRUE, val |-> <<>>]

(***************************************************************************)
(* Natural numbers of arbitrary size: little-endian sequences of limbs,    *)
(* without leading (high) zero limbs; zero is the empty sequence.          *)
(***************************************************************************)
LimbBits == 13

B == 2^LimbBits

MantissaBits == 53

RECURSIVE BNorm(_)
BNorm(a) ==
  IF a = <<>> THEN <<>>
  ELSE IF a[Len(a)] = 0 THEN BNorm(SubSeq(a, 1, Len(a) - 1))
  ELSE a

RECURSIVE BFromInt(_)
BFromInt(n) == IF n = 0 THEN <<>> ELSE <<n % B>> \o BFromInt(n \div B)

RECURSIVE BToInt(_)
BToInt(a) == IF a = <<>> THEN 0 ELSE a[1] + B * BToInt(Tail(a))

RECURSIVE BMulCarry(_, _, _)
BMulCarry(a, c, carry) ==
  IF a = <<>> THEN BFromInt(carry)
  ELSE LET p == a[1] * c + carry
       IN  <<p % B>> \o BMulCarry(Tail(a), c, p \div B)

\* a * c for a small natural c (c < B)
BMulSmall(a, c) == BNorm(BMulCarry(a, c, 0))

\* long division of a by a small natural d, from the high limb down
RECURSIVE BDivRem(_, _, _)
BDivRem(a, d, rem) ==
  IF a = <<>> THEN [q |-> <<>>, r |-> rem]
  ELSE LET x    == rem * B + a[Len(a)]
           rest == BDivRem(SubSeq(a, 1, Len(a) - 1), d, x % d)
       IN  [q |-> Append(rest.q, x \div d), r |-> rest.r]

BDivSmall(a, d) ==
  LET res == BDivRem(a, d, 0) IN [q |-> BNorm(res.q), r |-> res.r]

RECURSIVE BAddCarry(_, _, _)
BAddCarry(a, b, carry) ==
  IF a = <<>> /\ b = <<>> THEN BFromInt(carry)
  ELSE LET x == (IF a = <<>> THEN 0 ELSE a[1])
           y == (IF b = <<>> THEN 0 ELSE b[1])
           s == x + y + carry
       IN  <<s % B>> \o BAddCarry(IF a = <<>> THEN <<>> ELSE Tail(a),
                                  IF b = <<>> THEN <<>> ELSE Tail(b),
                                  s \div B)

BAdd(a, b) == BNorm(BAddCarry(a, b, 0))

\* a - b, for a >= b
RECURSIVE BSubBorrow(_, _, _)
BSubBorrow(a, b, borrow) ==
  IF a = <<>> THEN <<>>
  ELSE LET y == (IF b = <<>> THEN 0 ELSE b[1])
           s == a[1] - y - borrow
       IN  <<s % B>> \o BSubBorrow(Tail(a),
                                   IF b = <<>> THEN <<>> ELSE Tail(b),
                                   IF s < 0 THEN 1 ELSE 0)

BSub(a, b) == BNorm(BSubBorrow(a, b, 0))

RECURSIVE BLess(_, _)
BLess(a, b) ==
  IF Len(a) # Len(b) THEN Len(a) < Len(b)
  ELSE IF a = <<>> THEN FALSE
  ELSE IF a[Len(a)] # b[Len(b)] THEN a[Len(a)] < b[Len(b)]
  ELSE BLess(SubSeq(a, 1, Len(a) - 1), SubSeq(b, 1, Len(b) - 1))

RECURSIVE BitLenInt(_)
BitLenInt(n) == IF n = 0 THEN 0 ELSE 1 + BitLenInt(n \div 2)

BBitLen(a) ==
  IF a = <<>> THEN 0 ELSE (Len(a) - 1) * LimbBits + BitLenInt(a[Len(a)])

Zeros(k) == [j \in 1..k |-> 0]

\* a * 2^t
BShl(a, t) ==
  IF a = <<>> THEN <<>>
  ELSE BMulSmall(Zeros(t \div LimbBits) \o a, 2^(t % LimbBits))

\* floor(a / 2^t)
BShr(a, t) ==
  IF t \div LimbBits >= Len(a) THEN <<>>
  ELSE BDivSmall(SubSeq(a, (t \div LimbBits) + 1, Len(a)), 2^(t % LimbBits)).q

BOdd(a) == a # <<>> /\ a[1] % 2 = 1

(***************************************************************************)
(* binary64.  A float is [neg, man, exp] and stands for                    *)
(* (-1)^neg * man * 2^exp; man is 0 or has exactly 53 bits.                *)
(***************************************************************************)
FZero == [neg |-> FALSE, man |-> <<>>, exp |-> 0]

\* a mantissa of 53 or 54 bits and its exponent, as a float
FNormal(neg, m, e) ==
  IF BBitLen(m) > MantissaBits
  THEN [neg |-> neg, man |-> BShr(m, 1), exp |-> e + 1]
  ELSE [neg |-> neg, man |-> m, exp |-> e]

\* n has t bits too many: q2 is n without its low t - 1 bits, q is n without
\* its low t bits; the last bit of q2 is the half, the bits below it and
\* sticky say whether more than the half is cut off
FRoundCut(neg, n, e, sticky, t, q2, q) ==
  FNormal(neg,
          IF BOdd(q2) /\ (sticky \/ BShl(q2, t - 1) # n \/ BOdd(q))
          THEN BAdd(q, <<1>>) ELSE q,
          e + t)

FRoundLen(neg, n, e, sticky, bl) ==
  IF bl <= MantissaBits
  THEN [neg |-> neg, man |-> BShl(n, MantissaBits - bl),
        exp |-> e - (MantissaBits - bl)]
  ELSE FRoundCut(neg, n, e, sticky, bl - MantissaBits,
                 BShr(n, bl - MantissaBits - 1), BShr(n, bl - MantissaBits))

\* The float nearest to (n + f) * 2^e, where 0 < f < 1 if sticky and f = 0
\* otherwise: round to nearest, ties to even.
FRound(neg, n, e, sticky) ==
  IF n = <<>> THEN FZero ELSE FRoundLen(neg, n, e, sticky, BBitLen(n))

Abs(n) == IF n < 0 THEN -n ELSE n

\* float(n)
FFromInt(n) == FRound(n < 0, BFromInt(Abs(n)), 0, FALSE)

FQuotient(neg, d) == FRound(neg, d.q, -(6 * LimbBits), d.r # 0)

\* a / b under true division, a and b integers, b # 0
FDivInt(a, b) ==
  FQuotient((a < 0) # (b < 0),
            BDivSmall(BShl(BFromInt(Abs(a)), 6 * LimbBits), Abs(b)))

\* x * c, x a float and c an integer
FMulInt(x, c) ==
  FRound(x.neg # (c < 0), BMulSmall(x.man, Abs(c)), x.exp, FALSE)

\* the sum of (-1)^cneg * big * 2^x.exp and x, x # 0
FAddAligned(cneg, big, x) ==
  FRound(IF cneg = x.neg \/ BLess(big, x.man) THEN x.neg ELSE cneg,
         IF cneg = x.neg THEN BAdd(big, x.man)
         ELSE IF BLess(big, x.man) THEN BSub(x.man, big)
         ELSE BSub(big, x.man),
         x.exp, FALSE)

\* c + x, c an integer and x a float of magnitude below 2^53
FAddInt(c, x) ==
  IF x.man = <<>> THEN FFromInt(c)
  ELSE FAddAligned(c < 0, BShl(BFromInt(Abs(c)), -x.exp), x)

\* x / 2^k: exact, only the exponent changes
FDivPow2(x, k) ==
  IF x.man = <<>> THEN x ELSE [x EXCEPT !.exp = x.exp - k]

\* int(x): truncation toward zero, x of magnitude below 2^31
FTrunc(x) ==
  (IF x.neg THEN -1 ELSE 1) *
  (IF x.exp >= 0 THEN BToInt(BShl(x.man, x.exp)) ELSE BToInt(BShr(x.man, -x.exp)))

\* x == n, for an integer n
FEqInt(x, n) == x = FFromInt(n)

(***************************************************************************)
(* Characters and strings.  A string is a sequence of one-character        *)
(* strings.                                                                *)
(***************************************************************************)
DigitChars == <<"0", "1", "2", "3", "4", "5", "6", "7", "8", "9">>

Range(s) == {s[i] : i \in 1..Len(s)}

\* s.index(ch), 0-based; the caller checks ch \in Range(s)
IndexOf(s, ch) == (CHOOSE i \in 1..Len(s) : s[i] = ch /\ \A j \in 1..(i - 1) : s[j] # ch) - 1

\* str(n) of an integer
RECURSIVE StrNat(_)
StrNat(n) == IF n < 10 THEN <<DigitChars[n + 1]>>
             ELSE Append(StrNat(n \div 10), DigitChars[(n % 10) + 1])

Str(n) == IF n < 0 THEN <<"-">> \o StrNat(-n) ELSE StrNat(n)

Min(a, b) == IF a < b THEN a ELSE b

\* s[a:b] for 0 <= a <= b: the slice is cut at the end of s
Slice(s, a, b) == SubSeq(s, a + 1, Min(b, Len(s)))

(***************************************************************************)
(* rgb_to_hex                                                              *)
(***************************************************************************)
\* the remainder r * 2^x.exp of |x| / 16, with the sign of the divisor
FRemainder16(x, r) ==
  IF r = <<>> THEN FZero
  ELSE IF x.neg THEN FAddInt(16, [neg |-> TRUE, man |-> r, exp |-> x.exp])
  ELSE FRound(FALSE, r, x.exp, FALSE)

\* x % 16 for a float x: fmod is exact; a negative remainder is moved into
\* [0, 16] by a (rounded) addition of 16
FMod16(x) ==
  IF x.man = <<>> \/ x.exp >= 4 THEN FZero
  ELSE FRemainder16(x, BSub(x.man, BShl(BShr(x.man, 4 - x.exp), 4 - x.exp)))

rgb_alphas == <<"A", "B", "C", "D", "E", "F">>

\* a faulty variant: the letter is looked up at mathval - 9
numeric_to_indhex_off_by_one(mathval) ==
  IF mathval < 10 THEN Ok(Str(mathval))
  ELSE IF mathval - 9 >= Len(rgb_alphas) THEN Raise("IndexError")
  ELSE Ok(<<rgb_alphas[(mathval - 9) + 1]>>)

numeric_to_indhex(mathval) ==
  IF mathval < 10 THEN Ok(Str(mathval))
  ELSE IF mathval - 10 >= Len(rgb_alphas) THEN Raise("IndexError")
  ELSE Ok(<<rgb_alphas[(mathval - 10) + 1]>>)

\* hi + lo, or the exception of the first of the two that raised one
Concat(hi, lo) ==
  IF hi.exc # "none" THEN hi
  ELSE IF lo.exc # "none" THEN lo
  ELSE Ok(hi.val \o lo.val)

\* div = int(cval/16), rem = int(cval%16)
colorval_to_hexval(cval) ==
  Concat(numeric_to_indhex(FTrunc(FDivPow2(cval, 4))),
         numeric_to_indhex(FTrunc(FMod16(cval))))

RECURSIVE JoinHexvals(_)
JoinHexvals(color_code) ==
  IF color_code = <<>> THEN Ok(<<>>)
  ELSE Concat(colorval_to_hexval(color_code[1]), JoinHexvals(Tail(color_code)))

\* color_code is a sequence of floats
rgb_to_hex(color_code) == Concat(Ok(<<"#">>), JoinHexvals(color_code))

\* the same call on integer channels: cval/16 is a true division, so the
\* arithmetic is the float arithmetic on float(cval)
FloatColor(c) == [i \in 1..Len(c) |-> FFromInt(c[i])]

(***************************************************************************)
(* hex_to_rgb                                                              *)
(***************************************************************************)
hex_alphas == <<"A", "B", "C", "D", "E", "F">>

\* a faulty variant: an unknown character counts as 0
indhex_to_numeric_lenient(letterval) ==
  IF letterval \in Range(DigitChars) THEN Ok(IndexOf(DigitChars, letterval))
  ELSE IF letterval \in Range(hex_alphas) THEN Ok(IndexOf(hex_alphas, letterval) + 10)
  ELSE Ok(0)

\* letterval is an ASCII character: int() takes the decimal digits, and
\* alphas.index raises ValueError on what is not in 'ABCDEF'
indhex_to_numeric(letterval) ==
  IF letterval \in Range(DigitChars) THEN Ok(IndexOf(DigitChars, letterval))
  ELSE IF letterval \in Range(hex_alphas) THEN Ok(IndexOf(hex_alphas, letterval) + 10)
  ELSE Raise("ValueError")

\* div + rem, or the exception of the first of the two that raised one
Nibbles(div, rem) ==
  IF div.exc # "none" THEN div
  ELSE IF rem.exc # "none" THEN rem
  ELSE Ok(div.val * 16 + rem.val)

\* a faulty variant: the two digits of a pair are swapped
hexval_to_colorval_low_first(hval) ==
  IF Len(hval) < 1 THEN Raise("IndexError")
  ELSE Nibbles(IF Len(hval) < 2 THEN Raise("IndexError") ELSE indhex_to_numeric(hval[2]),
               indhex_to_numeric(hval[1]))

\* hval[0] and hval[1] raise IndexError on a pair cut short by the slice
hexval_to_colorval(hval) ==
  IF Len(hval) < 1 THEN Raise("IndexError")
  ELSE Nibbles(indhex_to_numeric(hval[1]),
               IF Len(hval) < 2 THEN Raise("IndexError") ELSE indhex_to_numeric(hval[2]))

\* the first exception of a sequence of outcomes, or the sequence of values
Collect(outs) ==
  IF \E i \in 1..Len(outs) : outs[i].exc # "none"
  THEN outs[CHOOSE i \in 1..Len(outs) : outs[i].exc # "none"
                                        /\ \A j \in 1..(i - 1) : outs[j].exc = "none"]
  ELSE Ok([i \in 1..Len(outs) |-> outs[i].val])

\* separated_hexes and indrgb, for the code without its '#'
SeparatedHexes(code) ==
  Collect([i \in 1..3 |-> hexval_to_colorval(Slice(code, (i - 1) * 2, (i - 1) * 2 + 2))])

hex_to_rgb(color_code) ==
  IF Len(color_code) = 0 THEN Raise("IndexError")
  ELSE SeparatedHexes(IF color_code[1] = "#" THEN Tail(color_code) ELSE color_code)

(***************************************************************************)
(* linear_gradient                                                         *)
(***************************************************************************)
nInterpolate == 765

\* a faulty variant: the fraction is i / length
scale_over_length(start, finish, length, i) ==
  FAddInt(start, FMulInt(FDivInt(i, length), finish - start))

\* start and finish are integers (decoded channels), the result is a float:
\* fraction = float(i) / (length - 1), raynge = finish - start
scale(start, finish, length, i) ==
  FAddInt(start, FMulInt(FDivInt(i, length - 1), finish - start))

\* len(allColors): 765 colors for every pair of consecutive control points
AllColorsLen(rgbList) ==
  IF Len(rgbList) < 2 THEN 0 ELSE (Len(rgbList) - 1) * nInterpolate

\* sample i of the segment from start to end
Sample(start, end, i) ==
  <<scale(start[1], end[1], nInterpolate, i),
    scale(start[2], end[2], nInterpolate, i),
    scale(start[3], end[3], nInterpolate, i)>>

\* allColors[index], 0 <= index < len(allColors): the list is the
\* concatenation of the segments, each sampled at 0 .. 764
AllColorsAt(rgbList, index) ==
  Sample(rgbList[(index \div nInterpolate) + 1],
         rgbList[(index \div nInterpolate) + 2],
         index % nInterpolate)

\* a faulty variant: the fraction is scaled by len(allColors)
resample_index_over_len(counter, nColors, total) ==
  FTrunc(FMulInt(FDivInt(counter, nColors - 1), total))

\* the index picked for output number counter, total = len(allColors):
\* fraction = float(counter) / (nColors - 1), index = int(fraction * (total - 1))
resample_index(counter, nColors, total) ==
  FTrunc(FMulInt(FDivInt(counter, nColors - 1), total - 1))

\* allColors[index] raises IndexError for an index outside the list; an
\* index is negative only when the list is empty
Pick(rgbList, index, total) ==
  IF \E k \in 1..Len(index) : index[k] < 0 \/ index[k] >= total
  THEN Raise("IndexError")
  ELSE Ok([k \in 1..Len(index) |-> AllColorsAt(rgbList, index[k])])

\* a faulty variant: the loop stops one color early
linear_gradient_one_short(rgbList, nColors) ==
  IF nColors <= 0 THEN Ok(<<>>)
  ELSE IF nColors = 1 THEN Raise("ZeroDivisionError")
  ELSE Pick(rgbList,
            [counter \in 1..(nColors - 1) |->
               resample_index(counter - 1, nColors, AllColorsLen(rgbList))],
            AllColorsLen(rgbList))

linear_gradient(rgbList, nColors) ==
  IF nColors <= 0 THEN Ok(<<>>)
  ELSE IF nColors = 1 THEN Raise("ZeroDivisionError")
  ELSE Pick(rgbList,
            [counter \in 1..nColors |->
               resample_index(counter - 1, nColors, AllColorsLen(rgbList))],
            AllColorsLen(rgbList))

(***************************************************************************)
(* color_brewer                                                            *)
(***************************************************************************)
maximum_n == 253

SchemeNames ==
  {"BuGn", "BuPu", "GnBu", "OrRd", "PuBu", "PuBuGn",
   "PuRd", "RdPu", "YlGn", "YlGnBu", "YlOrBr", "YlOrRd"}

schemes ==
  [name \in SchemeNames |->
     CASE name = "BuGn" ->
            <<<<"#", "E", "D", "F", "8", "F", "B">>,
              <<"#", "C", "C", "E", "C", "E", "6">>,
              <<"#", "C", "C", "E", "C", "E", "6">>,
              <<"#", "6", "6", "C", "2", "A", "4">>,
              <<"#", "4", "1", "A", "E", "7", "6">>,
              <<"#", "2", "3", "8", "B", "4", "5">>,
              <<"#", "0", "0", "5", "8", "2", "4">>>>
       [] name = "BuPu" ->
            <<<<"#", "E", "D", "F", "8", "F", "B">>,
              <<"#", "B", "F", "D", "3", "E", "6">>,
              <<"#", "9", "E", "B", "C", "D", "A">>,
              <<"#", "8", "C", "9", "6", "C", "6">>,
              <<"#", "8", "C", "6", "B", "B", "1">>,
              <<"#", "8", "8", "4", "1", "9", "D">>,
              <<"#", "6", "E", "0", "1", "6", "B">>>>
       [] name = "GnBu" ->
            <<<<"#", "F", "0", "F", "9", "E", "8">>,
              <<"#", "C", "C", "E", "B", "C", "5">>,
              <<"#", "A", "8", "D", "D", "B", "5">>,
              <<"#", "7", "B", "C", "C", "C", "4">>,
              <<"#", "4", "E", "B", "3", "D", "3">>,
              <<"#", "2", "B", "8", "C", "B", "E">>,
              <<"#", "0", "8", "5", "8", "9", "E">>>>
       [] name = "OrRd" ->
            <<<<"#", "F", "E", "F", "0", "D", "9">>,
              <<"#", "F", "D", "D", "4", "9", "E">>,
              <<"#", "F", "D", "B", "B", "8", "4">>,
              <<"#", "F", "C", "8", "D", "5", "9">>,
              <<"#", "E", "F", "6", "5", "4", "8">>,
              <<"#", "D", "7", "3", "0", "1", "F">>,
              <<"#", "9", "9", "0", "0", "0", "0">>>>
       [] name = "PuBu" ->
            <<<<"#", "F", "1", "E", "E", "F", "6">>,
              <<"#", "D", "0", "D", "1", "E", "6">>,
              <<"#", "A", "6", "B", "D", "D", "B">>,
              <<"#", "7", "4", "A", "9", "C", "F">>,
              <<"#", "3", "6", "9", "0", "C", "0">>,
              <<"#", "0", "5", "7", "0", "B", "0">>,
              <<"#", "0", "3", "4", "E", "7", "B">>>>
       [] name = "PuBuGn" ->
            <<<<"#", "F", "6", "E", "F", "F", "7">>,
              <<"#", "D", "0", "D", "1", "E", "6">>,
              <<"#", "A", "6", "B", "D", "D", "B">>,
              <<"#", "6", "7", "A", "9", "C", "F">>,
              <<"#", "3", "6", "9", "0", "C", "0">>,
              <<"#", "0", "2", "8", "1", "8", "A">>,
              <<"#", "0", "1", "6", "4", "5", "0">>>>
       [] name = "PuRd" ->
            <<<<"#", "F", "1", "E", "E", "F", "6">>,
              <<"#", "D", "4", "B", "9", "D", "A">>,
              <<"#", "C", "9", "9", "4", "C", "7">>,
              <<"#", "D", "F", "6", "5", "B", "0">>,
              <<"#", "E", "7", "2", "9", "8", "A">>,
              <<"#", "C", "E", "1", "2", "5", "6">>,
              <<"#", "9", "1", "0", "0", "3", "F">>>>
       [] name = "RdPu" ->
            <<<<"#", "F", "E", "E", "B", "E", "2">>,
              <<"#", "F", "C", "C", "5", "C", "0">>,
              <<"#", "F", "A", "9", "F", "B", "5">>,
              <<"#", "F", "7", "6", "8", "A", "1">>,
              <<"#", "D", "D", "3", "4", "9", "7">>,
              <<"#", "A", "E", "0", "1", "7", "E">>,
              <<"#", "7", "A", "0", "1", "7", "7">>>>
       [] name = "YlGn" ->
            <<<<"#", "F", "F", "F", "F", "C", "C">>,
              <<"#", "D", "9", "F", "0", "A", "3">>,
              <<"#", "A", "D", "D", "D", "8", "E">>,
              <<"#", "7", "8", "C", "6", "7", "9">>,
              <<"#", "4", "1", "A", "B", "5", "D">>,
              <<"#", "2", "3", "8", "4", "4", "3">>,
              <<"#", "0", "0", "5", "A", "3", "2">>>>
       [] name = "YlGnBu" ->
            <<<<"#", "F", "F", "F", "F", "C", "C">>,
              <<"#", "C", "7", "E", "9", "B", "4">>,
              <<"#", "7", "F", "C", "D", "B", "B">>,
              <<"#", "4", "1", "B", "6", "C", "4">>,
              <<"#", "1", "D", "9", "1", "C", "0">>,
              <<"#", "2", "2", "5", "E", "A", "8">>,
              <<"#", "0", "C", "2", "C", "8", "4">>>>
       [] name = "YlOrBr" ->
            <<<<"#", "F", "F", "F", "F", "D", "4">>,
              <<"#", "F", "E", "E", "3", "9", "1">>,
              <<"#", "F", "E", "C", "4", "4", "F">>,
              <<"#", "F", "E", "9", "9", "2", "9">>,
              <<"#", "E", "C", "7", "0", "1", "4">>,
              <<"#", "C", "C", "4", "C", "0", "2">>,
              <<"#", "8", "C", "2", "D", "0", "4">>>>
       [] name = "YlOrRd" ->
            <<<<"#", "F", "F", "F", "F", "B", "2">>,
              <<"#", "F", "E", "D", "9", "7", "6">>,
              <<"#", "F", "E", "B", "2", "4", "C">>,
              <<"#", "F", "D", "8", "D", "3", "C">>,
              <<"#", "F", "C", "4", "E", "2", "A">>,
              <<"#", "E", "3", "1", "A", "1", "C">>,
              <<"#", "B", "1", "0", "0", "2", "6">>>>]

\* color_scheme = [rgb_to_hex(rgb_code) for rgb_code in gradient]
Encode(gradient) ==
  IF gradient.exc # "none" THEN gradient
  ELSE Collect([i \in 1..Len(gradient.val) |-> rgb_to_hex(gradient.val[i])])

\* rgb_color_scheme = [hex_to_rgb(hex_code) for hex_code in base]
Decode(base) == Collect([i \in 1..Len(base) |-> hex_to_rgb(base[i])])

Interpolate(rgb_color_scheme, n) ==
  IF rgb_color_scheme.exc # "none" THEN rgb_color_scheme
  ELSE Encode(linear_gradient(rgb_color_scheme.val, n))

\* a faulty variant: an unknown name returns None before the size check
color_brewer_lookup_first(color_code, n) ==
  IF n > 6 /\ n <= maximum_n
  THEN IF color_code \notin SchemeNames THEN ReturnNone
       ELSE Interpolate(Decode(schemes[color_code]), n)
  ELSE IF color_code \in SchemeNames
  THEN IF n > maximum_n THEN Raise("ValueError") ELSE Ok(schemes[color_code])
  ELSE ReturnNone

\* a faulty variant: the lookup returns the first n colors
color_brewer_slice(color_code, n) ==
  IF n > maximum_n THEN Raise("ValueError")
  ELSE IF n > 6
  THEN IF color_code \notin SchemeNames THEN ReturnNone
       ELSE Interpolate(Decode(schemes[color_code]), n)
  ELSE IF color_code \in SchemeNames
  THEN Ok(SubSeq(schemes[color_code], 1, IF n < 0 THEN 0 ELSE n))
  ELSE ReturnNone

color_brewer(color_code, n) ==
  IF n > maximum_n THEN Raise("ValueError")
  ELSE IF n > 6
  THEN IF color_code \notin SchemeNames THEN ReturnNone
       ELSE Interpolate(Decode(schemes[color_code]), n)
  ELSE IF color_code \in SchemeNames THEN Ok(schemes[color_code])
  ELSE ReturnNone

(***************************************************************************)
(* legend_scaler                                                           *)
(***************************************************************************)
\* i - d * j in units of 2^d.exp, i in the same units as big
FRemainder(big, d, j) ==
  FRound(FALSE, BSub(big, BMulSmall(d.man, j)), d.exp, FALSE)

\* floor(i / d): the largest j with d * j <= i
FloorQuotient(i, big, d) ==
  CHOOSE j \in 0..i :
    /\ ~BLess(big, BMulSmall(d.man, j))
    /\ (j = i \/ BLess(big, BMulSmall(d.man, j + 1)))

\* i % d for an integer i >= 0 and a float d >= 1: the remainder of the
\* float division is exact, i - d * floor(i / d)
FModInt(i, d) ==
  FRemainder(BShl(BFromInt(i), -d.exp), d,
             FloorQuotient(i, BShl(BFromInt(i), -d.exp), d))

\* the ticks for divisor = len(legend_values)/max_labels
Ticks(legend_values, divisor) ==
  [k \in 1..Len(legend_values) |->
     IF (k - 1) # 0 /\ FModInt(k - 1, divisor) = FZero
     THEN legend_values[k] ELSE ""]

\* max_labels >= 0
legend_scaler(legend_values, max_labels) ==
  IF Len(legend_values) < max_labels THEN Ok(legend_values)
  ELSE IF max_labels = 0 THEN Raise("ZeroDivisionError")
  ELSE Ok(Ticks(legend_values, FDivInt(Len(legend_values), max_labels)))

(***************************************************************************)
(* split_six: the rounding helper base                                     *)
(***************************************************************************)
\* math.floor(math.log10(x)) for a whole x >= 1: the logarithm of a whole
\* number below 10^9 is far enough from the next whole number, or is one
RECURSIVE FloorLog10(_)
FloorLog10(x) == IF x < 10 THEN 0 ELSE 1 + FloorLog10(x \div 10)

\* ip = int(x), twice = int(2 * x), exact says that 2 * x is whole
RoundPick(ip, twice, exact, python) ==
  IF twice % 2 = 0 THEN ip
  ELSE IF ~exact THEN ip + 1
  ELSE IF python = 2 THEN ip + 1
  ELSE IF ip % 2 = 0 THEN ip ELSE ip + 1

\* round(x) of a float x >= 0: Python 3 rounds a tie to the even neighbour,
\* Python 2 away from zero
Round(x, python) ==
  RoundPick(FTrunc(x), FTrunc(FMulInt(x, 2)),
            FMulInt(x, 2) = FFromInt(FTrunc(FMulInt(x, 2))), python)

\* a faulty variant: the quotient is truncated, not rounded
base_truncating(x, python) ==
  IF x > 0
  THEN Ok(FTrunc(FDivInt(x, 10^FloorLog10(x))) * 10^FloorLog10(x))
  ELSE Ok(0)

\* x is a whole number; base = pow(10, math.floor(math.log10(x)))
base(x, python) ==
  IF x > 0
  THEN Ok(Round(FDivInt(x, 10^FloorLog10(x)), python) * 10^FloorLog10(x))
  ELSE Ok(0)

(***************************************************************************)
(* Inputs of the codec.                                                    *)
(***************************************************************************)
MaxStrLen == 7

ChannelSample == {0, 9, 10, 16, 159, 255}

\* every channel value in every position
RGBInputs ==
  UNION {{<<v, g, b>>, <<g, v, b>>, <<g, b, v>>} :
           <<v, g, b>> \in (0..255) \X ChannelSample \X ChannelSample}

\* a digit, an upper-case letter, a lower-case letter, a letter that is no
\* hex digit
Alphabet == {"9", "F", "b", "G"}

\* no '#', one '#', two of them
Prefixes == {<<>>, <<"#">>, <<"#", "#">>}

HexDigitChars == Range(DigitChars) \cup Range(hex_alphas) \cup {"a", "b", "c", "d", "e", "f"}

\* every pair of hex digits, of either case, in a 6-digit color
PairInputs == {<<"#", x, y, y, x, x, x>> : x \in HexDigitChars, y \in HexDigitChars}

(***************************************************************************)
(* Calls of the codec.  A call made on the result of the previous call is  *)
(* what color_brewer does with the two functions.                          *)
(***************************************************************************)
Call_rgb_to_hex ==
  /\ fn = <<>>
  /\ \E c \in RGBInputs :
       /\ fn' = <<"rgb_to_hex">>
       /\ arg' = c
       /\ ret' = rgb_to_hex(FloatColor(c))

hex_to_rgb_called(h) ==
  /\ fn' = <<"hex_to_rgb">>
  /\ arg' = h
  /\ ret' = hex_to_rgb(h)

\* the strings of up to MaxStrLen characters of the alphabet behind each
\* prefix, and the colors of PairInputs
Call_hex_to_rgb ==
  /\ fn = <<>>
  /\ \/ \E prefix \in Prefixes, len \in 0..MaxStrLen :
          \E body \in [1..len -> Alphabet] : hex_to_rgb_called(prefix \o body)
     \/ \E h \in PairInputs : hex_to_rgb_called(h)

Then_hex_to_rgb ==
  /\ fn = <<"rgb_to_hex">>
  /\ ret.exc = "none"
  /\ fn' = Append(fn, "hex_to_rgb")
  /\ ret' = hex_to_rgb(ret.val)
  /\ UNCHANGED arg

Then_rgb_to_hex ==
  /\ fn = <<"hex_to_rgb">>
  /\ ret.exc = "none"
  /\ fn' = Append(fn, "rgb_to_hex")
  /\ ret' = rgb_to_hex(FloatColor(ret.val))
  /\ UNCHANGED arg

(***************************************************************************)
(* Calls of linear_gradient and color_brewer.                              *)
(***************************************************************************)
MaxPoints == 3

MaxGradN == 24

\* control points; 191 apart in a channel, the interpolation meets whole
\* numbers at samples where the float arithmetic is inexact
PointSample == {<<0, 0, 0>>, <<191, 0, 64>>, <<3, 194, 255>>}

RECURSIVE PointLists(_)
PointLists(k) ==
  IF k = 0 THEN {<<>>}
  ELSE {Append(l, p) : l \in PointLists(k - 1), p \in PointSample}

GradientInputs ==
  [rgbList : UNION {PointLists(k) : k \in 1..MaxPoints}, nColors : 0..MaxGradN]

Call_linear_gradient ==
  /\ fn = <<>>
  /\ \E a \in GradientInputs :
       /\ fn' = <<"linear_gradient">>
       /\ arg' = a
       /\ ret' = linear_gradient(a.rgbList, a.nColors)

MaxSmallN == 40

MaxN == 256

\* sizes on both sides of the two thresholds, 6 and maximum_n
BrewerSizes == ((-1)..MaxSmallN) \cup (250..MaxN)

BrewerInputs == [color_code : SchemeNames \cup {"NotAScheme"}, n : BrewerSizes]

Call_color_brewer ==
  /\ fn = <<>>
  /\ \E a \in BrewerInputs :
       /\ fn' = <<"color_brewer">>
       /\ arg' = a
       /\ ret' = color_brewer(a.color_code, a.n)

(***************************************************************************)
(* Calls of legend_scaler and of base.                                     *)
(***************************************************************************)
MaxLegendLen == 24

MaxLabels == 12

\* the legend values are labels, told apart by their position
Labels(len) == [k \in 1..len |-> ToString(k - 1)]

LegendInputs == [legend_values : {Labels(len) : len \in 0..MaxLegendLen},
                 max_labels : 0..MaxLabels]

Call_legend_scaler ==
  /\ fn = <<>>
  /\ \E a \in LegendInputs :
       /\ fn' = <<"legend_scaler">>
       /\ arg' = a
       /\ ret' = legend_scaler(a.legend_values, a.max_labels)

MaxX == 3000

\* the percentile x, and the major version of the interpreter
BaseInputs == [x : (-3)..MaxX, python : {2, 3}]

Call_base ==
  /\ fn = <<>>
  /\ \E a \in BaseInputs :
       /\ fn' = <<"base">>
       /\ arg' = a
       /\ ret' = base(a.x, a.python)

Init ==
  /\ fn = <<>>
  /\ arg = <<>>
  /\ ret = Ok(<<>>)

NextCodec ==
  \/ Call_rgb_to_hex
  \/ Call_hex_to_rgb
  \/ Then_hex_to_rgb
  \/ Then_rgb_to_hex

SpecCodec == Init /\ [][NextCodec]_vars

NextColors ==
  \/ Call_linear_gradient
  \/ Call_color_brewer

SpecColors == Init /\ [][NextColors]_vars

NextLegend == Call_legend_scaler

SpecLegend == Init /\ [][NextLegend]_vars

NextBase == Call_base

SpecBase == Init /\ [][NextBase]_vars

Next ==
  \/ NextCodec
  \/ NextColors
  \/ NextLegend
  \/ NextBase

Spec == Init /\ [][Next]_vars

(***************************************************************************)
(* The hex/RGB codec                                                       *)
(***************************************************************************)
IsHexColor(h) == Len(h) = 7 /\ h[1] = "#" /\ \A i \in 2..7 : h[i] \in HexDigitChars

UpperHexChars == Range(DigitChars) \cup Range(hex_alphas)

IsUpperHexColor(h) == Len(h) = 7 /\ h[1] = "#" /\ \A i \in 2..7 : h[i] \in UpperHexChars

Upper(ch) ==
  CASE ch = "a" -> "A" [] ch = "b" -> "B" [] ch = "c" -> "C"
    [] ch = "d" -> "D" [] ch = "e" -> "E" [] ch = "f" -> "F"
    [] OTHER -> ch

Uppercase(h) == [i \in 1..Len(h) |-> Upper(h[i])]

Strip(h) == IF h # <<>> /\ h[1] = "#" THEN Tail(h) ELSE h

\* C1: every RGB color with integer channels in 0..255 is encoded without an
\* error, and decoding its encoding gives the same three channels in the
\* same order.
C1_RoundTripRgb ==
  /\ fn = <<"rgb_to_hex">> => ret.exc = "none"
  /\ fn = <<"rgb_to_hex", "hex_to_rgb">> => ret = Ok(arg)

C1_Witness ==
  /\ fn = <<"rgb_to_hex", "hex_to_rgb">>
  /\ arg = <<171, 9, 255>>
  /\ ret = Ok(<<171, 9, 255>>)

\* C2 as stated: every '#' + 6 hex digits, of either case, is decoded without
\* an error and encoding the decoded color gives the upper-case form of it.
C2_Original ==
  /\ (fn = <<"hex_to_rgb">> /\ IsHexColor(arg)) => ret.exc = "none"
  /\ (fn = <<"hex_to_rgb", "rgb_to_hex">> /\ IsHexColor(arg)) => ret = Ok(Uppercase(arg))

\* C2 amended: every '#' + 6 hex digits whose letters are upper-case is
\* decoded without an error and encoding the decoded color gives it back;
\* a color with a lower-case letter among its digits is rejected with a
\* ValueError.
C2_RoundTripUpperHex ==
  /\ (fn = <<"hex_to_rgb">> /\ IsUpperHexColor(arg)) => ret.exc = "none"
  /\ (fn = <<"hex_to_rgb", "rgb_to_hex">> /\ IsUpperHexColor(arg)) => ret = Ok(arg)
  /\ (fn = <<"hex_to_rgb">> /\ IsHexColor(arg) /\ ~IsUpperHexColor(arg))
        => ret = Raise("ValueError")

C2_Witness ==
  /\ fn = <<"hex_to_rgb", "rgb_to_hex">>
  /\ arg = <<"#", "A", "7", "7", "A", "A", "A">>
  /\ ret = Ok(arg)

Failed == ret.exc \in {"ValueError", "IndexError"}

SixHex(s) == Len(s) = 6 /\ \A i \in 1..6 : s[i] \in HexDigitChars

\* C3 as stated: hex_to_rgb fails on every string that, without its optional
\* leading '#', is not exactly 6 hex digits.
C3_Original ==
  (fn = <<"hex_to_rgb">> /\ ~SixHex(Strip(arg))) => Failed

\* C3 amended: hex_to_rgb fails on every ASCII string that, without its optional
\* leading '#', is shorter than 6 characters or has a character that is no
\* hex digit among its first 6; the characters after the sixth are not
\* looked at, so a longer string whose first 6 characters are upper-case hex
\* digits is decoded like its first 6 characters.
C3_FailsOnShortOrNonHex ==
  fn = <<"hex_to_rgb">> =>
    LET s == Strip(arg)
    IN  /\ (Len(s) < 6 \/ \E i \in 1..Min(6, Len(s)) : s[i] \notin HexDigitChars)
             => Failed
        /\ (Len(s) > 6 /\ \A i \in 1..6 : s[i] \in UpperHexChars)
             => ret = hex_to_rgb(SubSeq(s, 1, 6)) /\ ret.exc = "none"

C3_Witness ==
  /\ fn = <<"hex_to_rgb">>
  /\ arg = <<"#", "9", "F", "9", "G", "F", "F">>
  /\ ret = Raise("ValueError")

(***************************************************************************)
(* The gradient and the catalog                                            *)
(***************************************************************************)
\* C4: color_brewer raises the ValueError of the size check for every
\* n > 253, whatever the name, and for no n <= 253.
C4_RangeError ==
  fn = <<"color_brewer">> => (ret = Raise("ValueError") <=> arg.n > maximum_n)

C4_Witness ==
  /\ fn = <<"color_brewer">>
  /\ arg = [color_code |-> "NotAScheme", n |-> 254]
  /\ ret = Raise("ValueError")

\* C5: with 2 or more control points and n >= 2, the first color of the
\* gradient is the first control point and the last color, at index n - 1,
\* is the last control point, channel by channel.
C5_GradientEnds ==
  (fn = <<"linear_gradient">> /\ Len(arg.rgbList) >= 2 /\ arg.nColors >= 2) =>
     /\ ret.exc = "none"
     /\ Len(ret.val) >= arg.nColors
     /\ \A c \in 1..3 :
          /\ FEqInt(ret.val[1][c], arg.rgbList[1][c])
          /\ FEqInt(ret.val[arg.nColors][c], arg.rgbList[Len(arg.rgbList)][c])

C5_Witness ==
  /\ fn = <<"linear_gradient">>
  /\ arg = [rgbList |-> <<<<191, 0, 64>>, <<0, 0, 0>>, <<3, 194, 255>>>>, nColors |-> 12]
  /\ ret.exc = "none"
  /\ FEqInt(ret.val[12][2], 194)

\* C6: with 2 or more control points and n >= 2 the gradient has exactly n
\* colors, and color_brewer of a known name and 7 <= n <= 253 returns
\* exactly n hex colors.
C6_GradientLength ==
  /\ (fn = <<"linear_gradient">> /\ Len(arg.rgbList) >= 2 /\ arg.nColors >= 2) =>
        ret.exc = "none" /\ ~ret.none /\ Len(ret.val) = arg.nColors
  /\ (fn = <<"color_brewer">> /\ arg.color_code \in SchemeNames
        /\ arg.n >= 7 /\ arg.n <= 253) =>
        /\ ret.exc = "none" /\ ~ret.none
        /\ Len(ret.val) = arg.n
        /\ \A k \in 1..Len(ret.val) : IsUpperHexColor(ret.val[k])

C6_Witness ==
  /\ fn = <<"color_brewer">>
  /\ arg = [color_code |-> "YlOrRd", n |-> 14]
  /\ ret.exc = "none"
  /\ Len(ret.val) = 14

C10_SeamlessAtSeven ==
  (fn = <<"color_brewer">> /\ arg.n = 7 /\ arg.color_code \in SchemeNames) =>
     /\ ret = color_brewer(arg.color_code, 6)
     /\ ret = Ok(schemes[arg.color_code])

C10_Witness ==
  /\ fn = <<"color_brewer">>
  /\ arg = [color_code |-> "PuBuGn", n |-> 7]
  /\ ret.exc = "none"
  /\ ret.val[4] = <<"#", "6", "7", "A", "9", "C", "F">>

(***************************************************************************)
(* The legend tick scaler                                                  *)
(***************************************************************************)
\* C8: for max_labels >= 1 and L >= max_labels the result has length L and
\* position i holds values[i] exactly when i # 0 and i is a whole multiple
\* of the quotient L / max_labels (i * max_labels is a multiple of L), and
\* the blank '' otherwise; for L < max_labels the result is the input.
C8_LegendMultiples ==
  (fn = <<"legend_scaler">> /\ arg.max_labels >= 1) =>
     LET L == Len(arg.legend_values)
     IN  IF L < arg.max_labels THEN ret = Ok(arg.legend_values)
         ELSE /\ ret.exc = "none"
              /\ Len(ret.val) = L
              /\ \A i \in 0..(L - 1) :
                   ret.val[i + 1] =
                     IF i # 0 /\ (i * arg.max_labels) % L = 0
                     THEN arg.legend_values[i + 1] ELSE ""

(***************************************************************************)
(* The rounding helper of split_six                                        *)
(***************************************************************************)
\* C9: base(x) is 0 for x <= 0; for x > 0, with k = floor(log10(x)), it is a
\* multiple of 10^k within half of 10^k of x; 2100 gives 2000, 2790 gives
\* 3000.
C9_Base ==
  fn = <<"base">> =>
     /\ ret.exc = "none"
     /\ arg.x <= 0 => ret.val = 0
     /\ arg.x > 0 =>
          \E k \in 0..9 :
            /\ 10^k <= arg.x /\ arg.x < 10^(k + 1)
            /\ ret.val % (10^k) = 0
            /\ 2 * Abs(ret.val - arg.x) <= 10^k
     /\ arg.x = 2100 => ret.val = 2000
     /\ arg.x = 2790 => ret.val = 3000

C9_Witness ==
  /\ fn = <<"base">>
  /\ arg = [x |-> 2790, python |-> 3]
  /\ ret = Ok(3000)
====
